---- MODULE Spec2Model ----
(***************************************************************************)
(* Model of zpark/v1.py: the request handlers Webhook.post and Alert.post   *)
(* of the zpark HTTP relay.  The handlers keep no state between requests    *)
(* and share none, so a behaviour is the handling of one request: Init     *)
(* draws the configuration and the request, the actions are the steps of   *)
(* the handler the request is routed to.                                   *)
(*                                                                         *)
(* Library behaviour the handlers rely on is modelled by what it does:     *)
(*   int(str)              Python's integer parser (sign, digits)          *)
(*   request.get_json()    Flask's JSON body accessor                      *)
(*   hmac.new().hexdigest  a collision-free keyed digest on the bounded    *)
(*                         domain, rendered as lowercase hexadecimal       *)
(*   hmac.compare_digest   string equality, TypeError on non-ASCII str     *)
(*   reqparse              flask_restful's argument parser                 *)
(***************************************************************************)
EXTENDS Integers, Sequences, FiniteSets, TLC

(***************************************************************************)
(* Bounds                                                                  *)
(***************************************************************************)
\* longest Content-Length header value, in characters
MaxClLen == 2
\* largest configured MAX_CONTENT_LENGTH
MaxM == 2

(***************************************************************************)
(* Values                                                                  *)
(***************************************************************************)
\* Python's None where a header value (a sequence of characters) is expected
None == << "None" >>

\* characters a Content-Length header value is built from
ClChars == {"-", "0", "1", "2", "a"}

RECURSIVE SeqsUpTo(_, _)
SeqsUpTo(S, n) ==
    IF n = 0 THEN {<< >>}
    ELSE LET shorter == SeqsUpTo(S, n - 1)
         IN  shorter \cup {Append(s, c) : s \in {t \in shorter : Len(t) = n - 1}, c \in S}

\* request.headers.get('Content-Length', None): absent, or a string
ContentLengths == {None} \cup SeqsUpTo(ClChars, MaxClLen)

Digits == {"0", "1", "2", "3", "4", "5", "6", "7", "8", "9"}

DigitVal(c) ==
    CASE c = "0" -> 0 [] c = "1" -> 1 [] c = "2" -> 2 [] c = "3" -> 3
      [] c = "4" -> 4 [] c = "5" -> 5 [] c = "6" -> 6 [] c = "7" -> 7
      [] c = "8" -> 8 [] c = "9" -> 9

RECURSIVE DecVal(_)
DecVal(s) ==
    IF s = << >> THEN 0
    ELSE 10 * DecVal(SubSeq(s, 1, Len(s) - 1)) + DigitVal(s[Len(s)])

AllDigits(s) == Len(s) > 0 /\ \A i \in 1..Len(s) : s[i] \in Digits

\* int(cl) of line 117.  The result is [exc, val]: int(None) raises
\* TypeError, int of a string that is not an optionally signed run of
\* decimal digits raises ValueError, anything else is the integer.
int(cl) ==
    IF cl = None THEN [exc |-> "TypeError", val |-> 0]
    ELSE IF Len(cl) > 0 /\ cl[1] \in {"-", "+"}
         THEN IF AllDigits(Tail(cl))
              THEN [exc |-> "none",
                    val |-> IF cl[1] = "-" THEN 0 - DecVal(Tail(cl)) ELSE DecVal(Tail(cl))]
              ELSE [exc |-> "ValueError", val |-> 0]
         ELSE IF AllDigits(cl)
              THEN [exc |-> "none", val |-> DecVal(cl)]
              ELSE [exc |-> "ValueError", val |-> 0]

\* app.config['MAX_CONTENT_LENGTH']
MaxContentLengths == 0..MaxM

\* app.config['SPARK_WEBHOOK_SECRET'] when the key is present
SecretList == <<"k1", "k2">>
Secrets == {SecretList[i] : i \in 1..Len(SecretList)}
\* 'SPARK_WEBHOOK_SECRET' not in app.config
NoSecret == "NoSecret"

(***************************************************************************)
(* Request bodies and request.get_json()                                   *)
(***************************************************************************)
\* raw request bodies, as received
BodyList == << "{}", "{ }", "{\"id\":\"w1\"}", "{\"id\":\"w1\",\"name\":\"n1\"}",
               "[1]", "null", "x" >>
Bodies == {BodyList[i] : i \in 1..Len(BodyList)}

\* A JSON value: a dict is a set of <<key, value>> pairs.
JDict(items) == [kind |-> "dict", items |-> items]
JList == [kind |-> "list", items |-> {}]
JNone == [kind |-> "none", items |-> {}]

\* json.loads on the bodies above; "x" is not JSON
IsJsonText(b) == b # "x"

json_loads(b) ==
    CASE b = "{}" -> JDict({})
      [] b = "{ }" -> JDict({})
      [] b = "{\"id\":\"w1\"}" -> JDict({<<"id", "w1">>})
      [] b = "{\"id\":\"w1\",\"name\":\"n1\"}" -> JDict({<<"id", "w1">>, <<"name", "n1">>})
      [] b = "[1]" -> JList
      [] b = "null" -> JNone
      [] OTHER -> JNone

\* request.get_json() (line 130) on a request whose Content-Type is JSON:
\* [exc, val].  A body that is not JSON raises werkzeug's BadRequest.
get_json(b) ==
    IF IsJsonText(b)
    THEN [exc |-> "none", val |-> json_loads(b)]
    ELSE [exc |-> "BadRequest", val |-> JNone]

HasKey(d, k) == \E p \in d.items : p[1] = k

\* reqjson.setdefault(k, default) in place of reqjson.get: the placeholder is
\* written into the dict
dict_setdefault(d, k, default) ==
    IF d.kind # "dict" THEN [exc |-> "AttributeError", val |-> default, obj |-> d]
    ELSE IF HasKey(d, k)
         THEN [exc |-> "none", val |-> (CHOOSE p \in d.items : p[1] = k)[2], obj |-> d]
         ELSE [exc |-> "none", val |-> default, obj |-> JDict(d.items \cup {<<k, default>>})]

\* reqjson.get(k, default) of lines 132-133: [exc, val, obj], obj being the
\* object after the call.  Only a dict has .get; it is left as it was.
dict_get(d, k, default) ==
    IF d.kind # "dict" THEN [exc |-> "AttributeError", val |-> default, obj |-> d]
    ELSE [exc |-> "none",
          val |-> IF HasKey(d, k) THEN (CHOOSE p \in d.items : p[1] = k)[2] ELSE default,
          obj |-> d]

(***************************************************************************)
(* HMAC                                                                    *)
(***************************************************************************)
IndexOf(seq, x) == CHOOSE i \in 1..Len(seq) : seq[i] = x

HexLower == <<"0", "1", "2", "3", "4", "5", "6", "7", "8", "9", "a", "b", "c", "d", "e", "f">>
HexUpper == <<"0", "1", "2", "3", "4", "5", "6", "7", "8", "9", "A", "B", "C", "D", "E", "F">>

\* hmac.new(key, msg, sha1).digest(), one byte wide: a keyed digest without
\* collisions on Secrets \X Bodies.
hmac_digest(key, msg) == (37 * IndexOf(SecretList, key) + 11 * IndexOf(BodyList, msg) + 90) % 256

\* .hexdigest() of line 150: lowercase hexadecimal
hexdigest(n) == << HexLower[(n \div 16) + 1], HexLower[(n % 16) + 1] >>

UpperHex(n) == << HexUpper[(n \div 16) + 1], HexUpper[(n % 16) + 1] >>

\* a character outside ASCII, as a latin-1 header value can hold
NonAsciiChar == "U+00E9"

IsAscii(s) == \A i \in 1..Len(s) : s[i] # NonAsciiChar

\* hmac.compare_digest(a, b) of line 152 on two str: TypeError unless both
\* are ASCII, otherwise equality.
compare_digest(a, b) ==
    IF ~(IsAscii(a) /\ IsAscii(b)) THEN [exc |-> "TypeError", val |-> FALSE]
    ELSE [exc |-> "none", val |-> (a = b)]

\* request.headers.get('X-Spark-Signature', None) for a request with body b:
\* absent, the digest of b or of another body under either secret, an
\* upper-case rendering, a truncated digest, a non-ASCII string.
OtherBody(b) == BodyList[(IndexOf(BodyList, b) % Len(BodyList)) + 1]

Signatures(b) ==
    {None, << NonAsciiChar >>}
      \cup {hexdigest(hmac_digest(k, b)) : k \in Secrets}
      \cup {UpperHex(hmac_digest(k, b)) : k \in Secrets}
      \cup {hexdigest(hmac_digest(k, OtherBody(b))) : k \in Secrets}
      \cup {SubSeq(hexdigest(hmac_digest(k, b)), 1, 1) : k \in Secrets}

(***************************************************************************)
(* flask_restful.reqparse (lines 37-49)                                    *)
(***************************************************************************)
\* A JSON scalar of an alert body: its type and the text str() gives for it.
VStr(s) == [t |-> "str", v |-> s]
VInt5 == [t |-> "int", v |-> "5"]
VNone == [t |-> "none", v |-> "None"]

\* str(x), the `type=str` of lines 38, 42 and 46
py_str(x) == [t |-> "str", v |-> x.v]

\* Argument.convert: None is kept (arguments are nullable by default),
\* every other value goes through type(value).
convert(x) == IF x.t = "none" THEN x ELSE py_str(x)

\* Argument.parse for location='json': [err, val].  A name that is not in
\* the JSON source is an error when required and None otherwise.
parse_arg(source, name, required) ==
    IF source.kind = "dict" /\ HasKey(source, name)
    THEN [err |-> FALSE, val |-> convert((CHOOSE p \in source.items : p[1] = name)[2])]
    ELSE [err |-> required, val |-> VNone]

(***************************************************************************)
(* Collaborators (api_common) and configuration                            *)
(***************************************************************************)
\* what api_common.handle_spark_webhook may return
ProcessorResults == {[body |-> "processed", status |-> 200],
                     [body |-> "unknown command", status |-> 404]}

\* what api_common.send_spark_alert_message may return
SenderResults == {[body |-> "sent", status |-> 200],
                  [body |-> "send failed", status |-> 502]}

NoResponse == [body |-> "", status |-> 0]

\* app.config: the API token, the webhook secret (or its absence) and the
\* body size limit
ApiToken == "t1"
Configs == [token : {ApiToken}, secret : Secrets \cup {NoSecret}, max : MaxContentLengths]

\* the token header of a request: absent, the configured token, another one
TokenNone == "None"
Tokens == {TokenNone, ApiToken, "t2"}

\* JSON bodies of alert requests
ToValues == {VStr("room1"), VInt5, VNone}
SubjectValues == {VStr("fire"), VInt5, VNone}
MessageValues == {VStr("hello"), VNone}

Optional(key, values) == {{}} \cup {{<<key, v>>} : v \in values}

AlertBodies ==
    {JList} \cup
    {JDict(t \cup s \cup m) : t \in Optional("to", ToValues),
                              s \in Optional("subject", SubjectValues),
                              m \in Optional("message", MessageValues)}

WebhookRequests ==
    UNION {[endpoint : {"webhook"}, cl : ContentLengths, sig : Signatures(b), body : {b},
            token : {TokenNone}, json : {JNone}] : b \in Bodies}

AlertRequests ==
    [endpoint : {"alert"}, cl : {None}, sig : {None}, body : {""},
     token : Tokens, json : AlertBodies]

Requests == WebhookRequests \cup AlertRequests

(***************************************************************************)
(* State                                                                   *)
(***************************************************************************)
VARIABLES
    config,          \* app.config
    request,         \* the request being handled
    pc,              \* where the handler is, or how it ended
    cl,              \* Webhook.post: cl after line 117
    sparkhmac,       \* Webhook.post: line 129
    reqjson,         \* Webhook.post: line 130
    whid,            \* Webhook.post: line 132
    whname,          \* Webhook.post: line 133
    ourhmac,         \* Webhook.post: line 147
    trace,           \* the checks and reads made for this request, in order
    log,             \* app.logger entries of this request
    processorCalls,  \* arguments of the calls to handle_spark_webhook
    processorResult, \* what handle_spark_webhook returned
    senderCalls,     \* arguments of the calls to send_spark_alert_message
    senderResult,    \* what send_spark_alert_message returned
    response,        \* the (body, status) returned to the caller
    raised           \* the exception that left the handler, or "none"

vars == <<config, request, pc, cl, sparkhmac, reqjson, whid, whname, ourhmac,
          trace, log, processorCalls, processorResult, senderCalls, senderResult,
          response, raised>>

locals == <<cl, sparkhmac, reqjson, whid, whname, ourhmac>>

Init ==
    /\ config \in Configs
    /\ request \in Requests
    /\ pc = "Start"
    /\ cl = 0
    /\ sparkhmac = None
    /\ reqjson = JNone
    /\ whid = ""
    /\ whname = ""
    /\ ourhmac = << >>
    /\ trace = << >>
    /\ log = << >>
    /\ processorCalls = << >>
    /\ processorResult = NoResponse
    /\ senderCalls = << >>
    /\ senderResult = NoResponse
    /\ response = NoResponse
    /\ raised = "none"

\* the handler returned (body, status) from state p
Return(p, body, status) ==
    /\ pc' = p
    /\ response' = [body |-> body, status |-> status]
    /\ raised' = "none"

\* an exception left the handler
Raise(exc) ==
    /\ pc' = "Raised"
    /\ raised' = exc
    /\ response' = NoResponse

Terminal == {"RejectedBadLength", "RejectedTooLarge", "RejectedUnauthorized", "Dispatched",
             "RejectedToken", "RejectedArgs", "Sent", "Raised"}

(***************************************************************************)
(* Webhook.post                                                            *)
(***************************************************************************)
\* the limit taken as exclusive
TooBigOffByOne(c, max) == c # 0 /\ c >= max

\* line 123: the declared length is over the limit
TooBig(c, max) == c # 0 /\ c > max

\* lines 115-122: read and convert the Content-Length header
LengthCheck ==
    /\ pc = "Start"
    /\ request.endpoint = "webhook"
    /\ trace' = Append(trace, "length")
    /\ LET r == int(request.cl)
       IN  CASE r.exc = "ValueError" ->
                  /\ Return("RejectedBadLength", "error: Bad request", 400)
                  /\ cl' = cl
             [] r.exc = "none" ->
                  /\ cl' = r.val
                  /\ pc' = "LengthChecked"
                  /\ UNCHANGED <<response, raised>>
             [] OTHER ->
                  /\ Raise(r.exc)
                  /\ cl' = cl
    /\ UNCHANGED <<config, request, sparkhmac, reqjson, whid, whname, ourhmac, log,
                   processorCalls, processorResult, senderCalls, senderResult>>

\* the test for a missing signature hoisted above the size check
SizeCheckSignatureFirst ==
    /\ pc = "LengthChecked"
    /\ IF config.secret # NoSecret /\ request.sig = None
       THEN /\ trace' = Append(trace, "signature")
            /\ Return("RejectedUnauthorized", "error: Unauthorized", 403)
       ELSE /\ trace' = Append(trace, "size")
            /\ IF TooBig(cl, config.max)
               THEN Return("RejectedTooLarge", "error: Too big", 413)
               ELSE /\ pc' = "SizeChecked"
                    /\ UNCHANGED <<response, raised>>
    /\ UNCHANGED <<config, request, locals, log, processorCalls, processorResult, senderCalls,
                   senderResult>>

\* lines 123-127: compare the declared length with MAX_CONTENT_LENGTH
SizeCheck ==
    /\ pc = "LengthChecked"
    /\ trace' = Append(trace, "size")
    /\ IF TooBig(cl, config.max)
       THEN Return("RejectedTooLarge", "error: Too big", 413)
       ELSE /\ pc' = "SizeChecked"
            /\ UNCHANGED <<response, raised>>
    /\ UNCHANGED <<config, request, locals, log, processorCalls, processorResult, senderCalls,
                   senderResult>>

\* lines 129-133: read the signature header, parse the body, pick id and
\* name for the log
ReadRequest ==
    /\ pc = "SizeChecked"
    /\ sparkhmac' = request.sig
    /\ trace' = Append(trace, "get_json")
    /\ LET j == get_json(request.body)
       IN  IF j.exc # "none"
           THEN /\ Raise(j.exc)
                /\ UNCHANGED <<reqjson, whid, whname>>
            ELSE LET i == dict_get(j.val, "id", "<Unknown>")
                    n == dict_get(i.obj, "name", "<Unknown>")
                IN  IF i.exc # "none"
                    THEN /\ Raise(i.exc)
                         /\ reqjson' = i.obj
                         /\ UNCHANGED <<whid, whname>>
                    ELSE /\ reqjson' = n.obj
                         /\ whid' = i.val
                         /\ whname' = n.val
                         /\ pc' = "BodyRead"
                         /\ UNCHANGED <<response, raised>>
    /\ UNCHANGED <<config, request, cl, ourhmac, log, processorCalls, processorResult,
                   senderCalls, senderResult>>

\* the comparison's result tested the wrong way round
SignatureOutcomeInverted(secret, sig, body) ==
    IF secret = NoSecret THEN "authorized"
    ELSE IF sig = None THEN "missing"
    ELSE LET c == compare_digest(hexdigest(hmac_digest(secret, body)), sig)
         IN  IF c.exc # "none" THEN c.exc
             ELSE IF c.val = TRUE THEN "mismatch"
             ELSE "authorized"

\* lines 135-164: "authorized", "missing", "mismatch", or the exception of
\* compare_digest
SignatureOutcome(secret, sig, body) ==
    IF secret = NoSecret THEN "authorized"
    ELSE IF sig = None THEN "missing"
    ELSE LET c == compare_digest(hexdigest(hmac_digest(secret, body)), sig)
         IN  IF c.exc # "none" THEN c.exc
             ELSE IF c.val = FALSE THEN "mismatch"
             ELSE "authorized"

SignatureCheck ==
    /\ pc = "BodyRead"
    /\ LET o == SignatureOutcome(config.secret, sparkhmac, request.body)
           computed == config.secret # NoSecret /\ sparkhmac # None
       IN  /\ trace' = IF computed THEN trace \o <<"signature", "get_data", "hmac">>
                       ELSE Append(trace, "signature")
           /\ ourhmac' = IF computed THEN hexdigest(hmac_digest(config.secret, request.body))
                         ELSE ourhmac
           /\ CASE o = "authorized" ->
                     /\ pc' = "SignatureChecked"
                     /\ UNCHANGED <<response, raised, log>>
                [] o \in {"missing", "mismatch"} ->
                     /\ log' = Append(log, [level |-> "warning", id |-> whid, name |-> whname])
                     /\ Return("RejectedUnauthorized", "error: Unauthorized", 403)
                [] OTHER ->
                     /\ Raise(o)
                     /\ log' = log
    /\ UNCHANGED <<config, request, cl, sparkhmac, reqjson, whid, whname,
                   processorCalls, processorResult, senderCalls, senderResult>>

\* lines 166-169: log and hand the payload to the processor
Dispatch ==
    /\ pc = "SignatureChecked"
    /\ log' = Append(log, [level |-> "info", id |-> whid, name |-> whname])
    /\ trace' = Append(trace, "processor")
    /\ processorCalls' = Append(processorCalls, reqjson)
    /\ \E r \in ProcessorResults :
          /\ processorResult' = r
          /\ Return("Dispatched", r.body, r.status)
    /\ UNCHANGED <<config, request, locals, senderCalls, senderResult>>

(***************************************************************************)
(* Alert.post                                                              *)
(***************************************************************************)
\* api_common.requires_api_token (line 19): the handler runs iff the token
\* header is present and equals the configured token
TokenAuthGuard(header, token) == header # TokenNone /\ header = token

TokenCheck ==
    /\ pc = "Start"
    /\ request.endpoint = "alert"
    /\ trace' = Append(trace, "token")
    /\ IF TokenAuthGuard(request.token, config.token)
       THEN /\ pc' = "TokenChecked"
            /\ UNCHANGED <<response, raised>>
       ELSE \E st \in {401, 403} : Return("RejectedToken", "error: token", st)
    /\ UNCHANGED <<config, request, locals, log, processorCalls, processorResult, senderCalls,
                   senderResult>>

\* lines 37-56: parse the arguments, log, send
AlertPost ==
    /\ pc = "TokenChecked"
    /\ trace' = Append(trace, "parse_args")
    /\ LET to == parse_arg(request.json, "to", TRUE)
           subject == parse_arg(request.json, "subject", TRUE)
           message == parse_arg(request.json, "message", FALSE)
       IN  IF to.err \/ subject.err \/ message.err
           THEN /\ Return("RejectedArgs", "message: validation error", 400)
                /\ UNCHANGED <<log, senderCalls, senderResult>>
           ELSE /\ log' = Append(log, [level |-> "info", id |-> to.val.v, name |-> subject.val.v])
                /\ senderCalls' = Append(senderCalls, <<to.val, subject.val, message.val>>)
                /\ \E r \in SenderResults :
                      /\ senderResult' = r
                      /\ Return("Sent", r.body, r.status)
    /\ UNCHANGED <<config, request, locals, processorCalls, processorResult>>

Next ==
    \/ LengthCheck
    \/ SizeCheck
    \/ ReadRequest
    \/ SignatureCheck
    \/ Dispatch
    \/ TokenCheck
    \/ AlertPost

Spec == Init /\ [][Next]_vars

(***************************************************************************)
(* Properties                                                              *)
(***************************************************************************)
IsWebhook == request.endpoint = "webhook"

\* the request's Content-Length header is a string int() accepts
LengthOk == int(request.cl).exc = "none"

\* the declared length, when LengthOk
Declared == int(request.cl).val

\* the header is present and is not an optionally signed run of digits
NonNumeric(h) ==
    /\ h # None
    /\ LET d == IF Len(h) > 0 /\ h[1] \in {"-", "+"} THEN Tail(h) ELSE h
       IN  Len(d) = 0 \/ \E i \in 1..Len(d) : d[i] \notin Digits

\* the supplied signature is the lowercase hex HMAC of the raw body under
\* the configured secret
SignatureMatches ==
    /\ config.secret # NoSecret
    /\ request.sig # None
    /\ request.sig = hexdigest(hmac_digest(config.secret, request.body))

\* the length and the size guard let the request through
GuardsPassed == IsWebhook /\ LengthOk /\ ~(Declared > config.max)

Rejected == {"RejectedBadLength", "RejectedTooLarge", "RejectedUnauthorized"}

Unauthorized403 == [body |-> "error: Unauthorized", status |-> 403]
BadRequest400 == [body |-> "error: Bad request", status |-> 400]
TooBig413 == [body |-> "error: Too big", status |-> 413]

InTrace(x) == \E i \in 1..Len(trace) : trace[i] = x

\* C1: the payload processor is called only for a request whose
\* Content-Length parsed as an integer not over MAX_CONTENT_LENGTH and
\* which, when a secret is configured, carries the HMAC of its body; it is
\* never called on a path that ended in 400, 413 or 403.
C1_ProcessorOnlyIfAuthorized ==
    /\ processorCalls # << >> =>
          /\ pc = "Dispatched"
          /\ LengthOk
          /\ Declared <= config.max
          /\ (config.secret = NoSecret \/ SignatureMatches)
    /\ pc \in Rejected => processorCalls = << >> /\ ~InTrace("processor")

C1_Witness ==
    /\ pc = "Dispatched"
    /\ processorCalls # << >>
    /\ SignatureMatches
    /\ Declared = config.max

\* C2 (as claimed): with a secret configured and the length and size guards
\* passed, the request is authorized iff the signature is present and is
\* the HMAC of the raw body, and is answered 403 Unauthorized otherwise.
C2_SignatureDecides ==
    (GuardsPassed /\ config.secret # NoSecret /\ pc \in Terminal) =>
        IF SignatureMatches
        THEN pc = "Dispatched"
        ELSE pc = "RejectedUnauthorized" /\ response = Unauthorized403

\* C3 (as claimed): without a secret every request that passed the length
\* and size guards is dispatched to the processor, whatever its body and
\* signature header, and is never answered 403.
C3_NoSecretAlwaysDispatched ==
    (GuardsPassed /\ config.secret = NoSecret) =>
        /\ pc # "RejectedUnauthorized"
        /\ pc \in Terminal => pc = "Dispatched" /\ Len(processorCalls) = 1

\* C4 (as claimed): a missing or non-numeric Content-Length is answered
\* 400 Bad request, with the body not read and the processor not called.
C4_BadLengthIs400 ==
    (IsWebhook /\ (request.cl = None \/ NonNumeric(request.cl)) /\ pc # "Start") =>
        /\ pc = "RejectedBadLength"
        /\ response = BadRequest400
        /\ ~InTrace("get_json") /\ ~InTrace("get_data")
        /\ processorCalls = << >>

\* C5: a declared length over MAX_CONTENT_LENGTH is answered 413 Too big
\* with nothing read, parsed, hashed or dispatched; a declared length from
\* 0 up to the limit passes the size check.
C5_SizeGuard ==
    (IsWebhook /\ LengthOk /\ pc \notin {"Start", "LengthChecked"}) =>
        /\ Declared > config.max =>
              /\ pc = "RejectedTooLarge"
              /\ response = TooBig413
              /\ trace = <<"length", "size">>
              /\ reqjson = JNone /\ ourhmac = << >> /\ processorCalls = << >>
        /\ (0 <= Declared /\ Declared <= config.max) =>
              /\ pc # "RejectedTooLarge"
              /\ response # TooBig413
              /\ pc = "SizeChecked" \/ InTrace("get_json")

C5_Witness ==
    /\ pc = "RejectedTooLarge"
    /\ Declared = config.max + 1
    /\ config.max > 0
    /\ config.secret # NoSecret
    /\ request.sig # None

\* C6 (as claimed): a Content-Length that is present and is not a
\* non-negative integer, a negative one included, is answered 400 and goes
\* no further.
C6_NegativeLengthIs400 ==
    (IsWebhook /\ request.cl # None /\ pc # "Start"
       /\ (NonNumeric(request.cl) \/ (LengthOk /\ Declared < 0))) =>
        pc = "RejectedBadLength" /\ response = BadRequest400

\* C7 (as claimed): every webhook request ends in 400, 413, 403 or in the
\* dispatch to the processor; no exception leaves Webhook.post.
C7_NoExceptionEscapes ==
    IsWebhook =>
        /\ raised = "none"
        /\ pc \in Terminal => pc \in Rejected \cup {"Dispatched"}

\* C8: the guards run in the order length, size, signature, dispatch and
\* the first failing one answers: 400 for a non-numeric length whatever
\* the rest of the request, 413 for an oversized one whatever its
\* signature, 403 only after length and size passed, and nothing is
\* evaluated after the failing guard.
GuardOrder == <<"length", "size", "get_json", "signature", "get_data", "hmac", "processor">>

Position(x) == CHOOSE i \in 1..Len(GuardOrder) : GuardOrder[i] = x

C8_FirstFailingGuardAnswers ==
    IsWebhook =>
        /\ \A i \in 1..Len(trace) : \A j \in 1..Len(trace) :
              i < j => Position(trace[i]) < Position(trace[j])
        /\ (NonNumeric(request.cl) /\ pc # "Start") =>
              pc = "RejectedBadLength" /\ response = BadRequest400 /\ trace = <<"length">>
        /\ (LengthOk /\ Declared > config.max /\ pc \notin {"Start", "LengthChecked"}) =>
              pc = "RejectedTooLarge" /\ response = TooBig413 /\ trace = <<"length", "size">>
        /\ pc = "RejectedUnauthorized" =>
              /\ response = Unauthorized403
              /\ LengthOk /\ Declared <= config.max
              /\ SubSeq(trace, 1, 4) = <<"length", "size", "get_json", "signature">>
              /\ ~InTrace("processor")

C8_Witness ==
    /\ pc = "RejectedTooLarge"
    /\ config.secret # NoSecret
    /\ request.sig = None
    /\ trace = <<"length", "size">>

\* C9 (as claimed): with a valid token, a `to` or `subject` that is missing
\* or is not a string is answered with a 400-class error and the sender is
\* not called; otherwise the sender is called once with (to, subject,
\* message), message being None when absent, and its result is returned.
IsStringArg(name) ==
    /\ request.json.kind = "dict"
    /\ \E p \in request.json.items : p[1] = name /\ p[2].t = "str"

ArgOrNone(name) ==
    IF request.json.kind = "dict" /\ \E p \in request.json.items : p[1] = name
    THEN (CHOOSE p \in request.json.items : p[1] = name)[2]
    ELSE VNone

C9_AlertValidation ==
    (request.endpoint = "alert" /\ pc \in {"RejectedArgs", "Sent"}) =>
        IF ~(IsStringArg("to") /\ IsStringArg("subject"))
        THEN /\ pc = "RejectedArgs"
             /\ response.status \in 400..499
             /\ senderCalls = << >>
        ELSE /\ pc = "Sent"
             /\ senderCalls = << <<ArgOrNone("to"), ArgOrNone("subject"), ArgOrNone("message")>> >>
             /\ response = senderResult

\* C10: the processor gets the parsed JSON as received, the "<Unknown>"
\* placeholders of a missing id or name are in the log only, and the
\* (body, status) returned is the processor's.
C10_PayloadUntouched ==
    pc = "Dispatched" =>
        /\ processorCalls = << json_loads(request.body) >>
        /\ \A p \in processorCalls[1].items : p[2] # "<Unknown>"
        /\ log[Len(log)].id = (IF HasKey(json_loads(request.body), "id") THEN whid ELSE "<Unknown>")
        /\ processorResult \in ProcessorResults
        /\ response = processorResult

C10_Witness ==
    /\ pc = "Dispatched"
    /\ whid = "<Unknown>"
    /\ whname = "<Unknown>"
    /\ log[Len(log)] = [level |-> "info", id |-> "<Unknown>", name |-> "<Unknown>"]
    /\ processorCalls = << JDict({}) >>

====
